---- MODULE Spec2Model ----
(***************************************************************************)
(* A model of neon/data/pascal_voc.py: the overlap engine                  *)
(* (calculate_bb_overlap), the minibatch sampler (_sample_fg_bg_rois and   *)
(* _get_bbox_regression_labels), the proposal loader                       *)
(* (PASCALVOC.load_pascal_roi_selectivesearch and _compute_bb_targets),    *)
(* the region database builder (PASCALVOC.combine_gt_ss_roi) and the epoch *)
(* iterator (PASCALVOC.__init__, __iter__, reset).                         *)
(*                                                                         *)
(* Numbers.  Pixel coordinates are integers.  An overlap computed by the   *)
(* engine is the exact quotient [num, den].  An overlap score stored in a  *)
(* region set is an integer number of tenths (ScoreScale), a regression    *)
(* delta handed to the sampler is an integer.  The quota                   *)
(* fg_rois_per_image = FRCN_FG_FRAC * rois_per_image is a float in the     *)
(* source and is carried in quarters (FgFracDen) so that its fractional    *)
(* values are kept.                                                        *)
(***************************************************************************)
EXTENDS Integers, Sequences, FiniteSets, TLC

VARIABLES
    \* ---- overlap engine: the last call of calculate_bb_overlap
    ov_rp,          \* argument rp: a sequence of boxes
    ov_gt,          \* argument gt: a sequence of boxes
    ov_out,         \* the returned matrix overlaps[r][g], <<>> before the call
    \* ---- minibatch sampler: the last call of _sample_fg_bg_rois
    roidb,          \* argument roidb: one image's region set
    s_args,         \* the other arguments of the call
    s_out,          \* the locals and the returned tuple, <<>> before the call
    \* ---- proposal loader: one pass of load_pascal_roi_selectivesearch
    l_in,           \* gt_bb, gt_classes, bb of the image and self.overlap_thre
    l_out,          \* the locals and the roi_ss entry, <<>> before the pass
    \* ---- region database builder: one run of combine_gt_ss_roi
    b_in,           \* self.roi_gt, self.roi_ss, self.add_flipped, image widths
    b_pc,           \* position in combine_gt_ss_roi
    b_i,            \* loop variable i of the current loop
    heap,           \* the bb_targets arrays, by array identity
    roi_gt_ss,      \* the list being built, entries refer to heap arrays
    b_stats,        \* class_counts, sums, squared_sums
    \* ---- epoch iterator: one dataset object and its generators
    self,           \* the PASCALVOC object's fields, <<>> before construction
    gens            \* the generator objects returned by __iter__

ov_vars == <<ov_rp, ov_gt, ov_out>>
s_vars  == <<roidb, s_args, s_out>>
l_vars  == <<l_in, l_out>>
b_vars  == <<b_in, b_pc, b_i, heap, roi_gt_ss, b_stats>>
it_vars == <<self, gens>>
vars    == <<ov_vars, s_vars, l_vars, b_vars, it_vars>>

Min(a, b) == IF a <= b THEN a ELSE b
Max(a, b) == IF a >= b THEN a ELSE b

\* The states of the parts a specification does not exercise.
OvIdle == ov_rp = <<>> /\ ov_gt = <<>> /\ ov_out = <<>>
SIdle  == roidb = <<>> /\ s_args = <<>> /\ s_out = <<>>
LIdle  == l_in = <<>> /\ l_out = <<>>
BIdle  == /\ b_in = <<>> /\ b_pc = "idle" /\ b_i = 0 /\ heap = <<>>
          /\ roi_gt_ss = <<>> /\ b_stats = <<>>
ItIdle == self = <<>> /\ gens = <<>>

(***************************************************************************)
(* Overlap engine: calculate_bb_overlap                                    *)
(***************************************************************************)

\* Largest pixel coordinate of the boxes tried.
MaxCoord == 2

\* Box layout (x_min, y_min, x_max, y_max), 1-based positions in the tuple.
XMin(b) == b[1]
YMin(b) == b[2]
XMax(b) == b[3]
YMax(b) == b[4]

\* Every 4-tuple of coordinates, malformed boxes (x_max < x_min) included:
\* the engine does not validate its arguments.
AnyBox == [1..4 -> 0..MaxCoord]

WellFormed(b) == XMin(b) <= XMax(b) /\ YMin(b) <= YMax(b)

\* (b[2] - b[0] + 1) * (b[3] - b[1] + 1)
BoxArea(b) == (XMax(b) - XMin(b) + 1) * (YMax(b) - YMin(b) + 1)

\* A width that forgets the inclusive-extent + 1.
IntersectWExclusive(r, g) == Min(XMax(r), XMax(g)) - Max(XMin(r), XMin(g))

\* iw = min(rp[r,2], gt[g,2]) - max(rp[r,0], gt[g,0]) + 1
IntersectW(r, g) == Min(XMax(r), XMax(g)) - Max(XMin(r), XMin(g)) + 1

\* ih = min(rp[r,3], gt[g,3]) - max(rp[r,1], gt[g,1]) + 1
IntersectH(r, g) == Min(YMax(r), YMax(g)) - Max(YMin(r), YMin(g)) + 1

\* A denominator that counts the proposal's area twice.
UnionAreaProposalTwice(r, g) ==
    BoxArea(r) + BoxArea(r) - IntersectW(r, g) * IntersectH(r, g)

\* ua = area(rp[r]) + gt_box_area - iw * ih
UnionArea(r, g) ==
    BoxArea(r) + BoxArea(g) - IntersectW(r, g) * IntersectH(r, g)

\* A cell computed without looking at the sign of ih.
OverlapCellNoHeightGuard(r, g) ==
    IF IntersectW(r, g) > 0
    THEN [num |-> IntersectW(r, g) * IntersectH(r, g), den |-> UnionArea(r, g)]
    ELSE [num |-> 0, den |-> 1]

\* One cell of the matrix: 0 unless iw > 0 and ih > 0, else iw * ih / ua.
\* The quotient is kept exact as [num, den]; den = 0 is the division by zero.
OverlapCell(r, g) ==
    IF IntersectW(r, g) > 0
    THEN IF IntersectH(r, g) > 0
         THEN [num |-> IntersectW(r, g) * IntersectH(r, g), den |-> UnionArea(r, g)]
         ELSE [num |-> 0, den |-> 1]
    ELSE [num |-> 0, den |-> 1]

\* overlaps[r][g] for every proposal r and every reference g.
calculate_bb_overlap(rp, gt) ==
    [r \in 1..Len(rp) |-> [g \in 1..Len(gt) |-> OverlapCell(rp[r], gt[g])]]

\* Equality of two quotients as numbers.
RatEq(p, q) == p.num * q.den = q.num * p.den

OvInit == ov_rp = <<>> /\ ov_gt = <<>> /\ ov_out = <<>>

\* A call calculate_bb_overlap([a], [b]).
CallOverlap ==
    /\ ov_out = <<>>
    /\ \E a \in AnyBox, b \in AnyBox :
          /\ ov_rp' = <<a>>
          /\ ov_gt' = <<b>>
          /\ ov_out' = calculate_bb_overlap(<<a>>, <<b>>)

\* The caller drops the result.
DropOverlap ==
    /\ ov_out # <<>>
    /\ ov_rp' = <<>> /\ ov_gt' = <<>> /\ ov_out' = <<>>

InitOverlap == OvInit /\ SIdle /\ LIdle /\ BIdle /\ ItIdle

NextOverlap ==
    \/ CallOverlap /\ UNCHANGED <<s_vars, l_vars, b_vars, it_vars>>
    \/ DropOverlap /\ UNCHANGED <<s_vars, l_vars, b_vars, it_vars>>

SpecOverlap == InitOverlap /\ [][NextOverlap]_vars

\* C9: calculate_bb_overlap([a],[b])[0,0] equals calculate_bb_overlap([b],[a])[0,0]
\* for all boxes a and b, well-formed or not.
C9_Symmetry ==
    ov_out # <<>> =>
        /\ ov_out[1][1] = calculate_bb_overlap(ov_gt, ov_rp)[1][1]
        /\ RatEq(ov_out[1][1], calculate_bb_overlap(ov_gt, ov_rp)[1][1])

\* A call on two different boxes that overlap in part.
C9_Witness ==
    /\ ov_out # <<>>
    /\ ov_rp # ov_gt
    /\ BoxArea(ov_rp[1]) # BoxArea(ov_gt[1])
    /\ ov_out[1][1].num > 0
    /\ ov_out[1][1].num < ov_out[1][1].den

\* C10: for every box a (a Box of the data model: x_min <= x_max and
\* y_min <= y_max), calculate_bb_overlap([a],[a])[0,0] is exactly 1: the
\* intersection area equals the union denominator.
C10_SelfOverlapIsOne ==
    (ov_out # <<>> /\ ov_rp = ov_gt /\ WellFormed(ov_rp[1])) =>
        /\ ov_out[1][1].den > 0
        /\ ov_out[1][1].num = ov_out[1][1].den

\* A box wider and higher than one pixel compared with itself.
C10_Witness ==
    /\ ov_out # <<>>
    /\ ov_rp = ov_gt
    /\ WellFormed(ov_rp[1])
    /\ XMax(ov_rp[1]) > XMin(ov_rp[1])
    /\ YMax(ov_rp[1]) > YMin(ov_rp[1])
    /\ ov_out[1][1].num = ov_out[1][1].den

\* C11: for any two boxes, malformed ones (x_max < x_min or y_max < y_min)
\* included, the result is exactly 0 when the inclusive intersection width or
\* height is <= 0, and otherwise lies in (0, 1]: the union denominator is
\* strictly positive and at least the intersection area, so the result is
\* never negative, never above 1 and never a division by zero.
C11_ZeroOrInUnitInterval ==
    ov_out # <<>> =>
        LET a   == ov_rp[1]
            b   == ov_gt[1]
            iw  == (IF a[3] <= b[3] THEN a[3] ELSE b[3])
                   - (IF a[1] >= b[1] THEN a[1] ELSE b[1]) + 1
            ih  == (IF a[4] <= b[4] THEN a[4] ELSE b[4])
                   - (IF a[2] >= b[2] THEN a[2] ELSE b[2]) + 1
            out == ov_out[1][1]
        IN  /\ out.den > 0
            /\ out.num >= 0
            /\ out.num <= out.den
            /\ (iw <= 0 \/ ih <= 0) => out.num = 0
            /\ (iw > 0 /\ ih > 0) => (out.num = iw * ih /\ out.num > 0)

\* A malformed proposal (x_max < x_min) whose rows meet those of a
\* well-formed reference: the result is 0.
C11_Witness ==
    /\ ov_out # <<>>
    /\ XMax(ov_rp[1]) < XMin(ov_rp[1])
    /\ WellFormed(ov_gt[1])
    /\ YMin(ov_rp[1]) <= YMax(ov_gt[1]) /\ YMin(ov_gt[1]) <= YMax(ov_rp[1])
    /\ ov_out[1][1].num = 0
    /\ ov_out[1][1].den > 0

(***************************************************************************)
(* Minibatch sampler: _sample_fg_bg_rois and _get_bbox_regression_labels   *)
(*                                                                         *)
(* Arrays are 1-based sequences here; an index k of the source is k + 1.   *)
(***************************************************************************)

\* Overlap scores are stored in tenths.
ScoreScale == 10
\* FRCN_FG_IOU_THRE = 0.5
FRCN_FG_IOU_THRE == 5
\* FRCN_BG_IOU_THRE_LOW = 0.1
FRCN_BG_IOU_THRE_LOW == 1
\* FRCN_BG_IOU_THRE_HIGH = 0.5
FRCN_BG_IOU_THRE_HIGH == 5
\* FRCN_FG_FRAC = 0.25 = 1 / FgFracDen: quotas of foreground are in quarters.
FgFracDen == 4

\* Number of classes handed to the sampler, background (0) included.
NumClasses == 2
\* Largest number of candidates of one image.
MaxCand == 3
\* Largest rois_per_image.
MaxRois == 3

\* Scores on both sides of each threshold: below bg_low, at bg_low, just
\* below bg_high, at fg_threshold.
Scores == {0, FRCN_BG_IOU_THRE_LOW, FRCN_BG_IOU_THRE_HIGH - 1, FRCN_FG_IOU_THRE}

\* The deltas of a candidate that carries a regression target.
UsedDeltas(c) == <<c, 0 - 2, 3, 2 * c + 3>>

\* FRCN_IOU_THRE = 0.5, the default of self.overlap_thre
FRCN_IOU_THRE == 5

\* The values of self.overlap_thre the region sets are built with: a low one
\* and the default.
OverlapThresholds == {FRCN_BG_IOU_THRE_LOW, FRCN_IOU_THRE}

\* One candidate as the builder scores it: a score and the class owning it,
\* which is 0 exactly when the score is 0.
Candidates ==
    {[score |-> 0, class |-> 0]}
    \cup {[score |-> s, class |-> c] : s \in Scores \ {0}, c \in 1..(NumClasses - 1)}

\* The compact target (class, dx, dy, dw, dh) the builder stores for a
\* candidate: all zero unless its score reaches overlap_thre.
CandTarget(cand, overlap_thre) ==
    IF cand.score >= overlap_thre /\ cand.class > 0
    THEN <<cand.class>> \o UsedDeltas(cand.class)
    ELSE <<0, 0, 0, 0, 0>>

\* The box of candidate k: boxes differ from candidate to candidate.
CandBox(k) == <<k, 0, k + 1, 1>>

\* The region set (roidb entry) made of a sequence of candidates.
RegionSet(cs, overlap_thre) ==
    [bb                |-> [k \in 1..Len(cs) |-> CandBox(k)],
     max_overlap_area  |-> [k \in 1..Len(cs) |-> cs[k].score],
     max_overlap_class |-> [k \in 1..Len(cs) |-> cs[k].class],
     bb_targets        |-> [k \in 1..Len(cs) |-> CandTarget(cs[k], overlap_thre)]]

RegionSets ==
    {RegionSet(cs, t) : cs \in UNION {[1..n -> Candidates] : n \in 0..MaxCand},
                        t \in OverlapThresholds}

\* np.where(P)[0]: the members of S, a set of indices, in increasing order.
RECURSIVE WhereUpTo(_, _)
WhereUpTo(S, n) ==
    IF n = 0 THEN <<>>
    ELSE IF n \in S THEN Append(WhereUpTo(S, n - 1), n) ELSE WhereUpTo(S, n - 1)

Range(s) == {s[k] : k \in 1..Len(s)}

\* Every sequence of k different members of S.
RECURSIVE InjSeqs(_, _)
InjSeqs(S, k) ==
    IF k = 0 THEN {<<>>}
    ELSE UNION {{Append(s, x) : x \in S \ Range(s)} : s \in InjSeqs(S, k - 1)}

\* fg_inds = np.where(overlaps >= FRCN_FG_IOU_THRE)[0]
FgInds(overlaps) ==
    WhereUpTo({k \in 1..Len(overlaps) : overlaps[k] >= FRCN_FG_IOU_THRE}, Len(overlaps))

\* A background pool with no lower threshold.
BgIndsNoLow(overlaps) ==
    WhereUpTo({k \in 1..Len(overlaps) : overlaps[k] < FRCN_BG_IOU_THRE_HIGH},
              Len(overlaps))

\* bg_inds = np.where((overlaps < BG_HIGH) & (overlaps >= BG_LOW))[0]
BgInds(overlaps) ==
    WhereUpTo({k \in 1..Len(overlaps) : /\ overlaps[k] < FRCN_BG_IOU_THRE_HIGH
                                        /\ overlaps[k] >= FRCN_BG_IOU_THRE_LOW},
              Len(overlaps))

\* int(np.minimum(fg_rois_per_image, fg_inds.size)), the quota in quarters:
\* int() truncates the float minimum.
FgRoisPerThisImage(fg_rois_per_image, size) ==
    Min(fg_rois_per_image, FgFracDen * size) \div FgFracDen

\* A background count that ignores the foreground regions already taken.
BgRoisIgnoringFg(rois_per_image, fg_this, size) == Min(rois_per_image, size)

\* int(np.minimum(rois_per_image - fg_rois_per_this_image, bg_inds.size))
BgRoisPerThisImage(rois_per_image, fg_this, size) ==
    Min(rois_per_image - fg_this, size)

\* A deterministic mode that takes the last n of the pool.
SamplePoolLastN(inds, n, randomness) ==
    IF Len(inds) > 0
    THEN IF randomness
         THEN InjSeqs(Range(inds), Max(n, 0))
         ELSE {SubSeq(inds, Len(inds) - Max(n, 0) + 1, Len(inds))}
    ELSE {inds}

\* The sampling of one pool, the results it may give:
\*   if inds.size > 0:
\*       if randomness is True: np.random.choice(inds, size=n, replace=False)
\*       else:                  inds[range(n)]
\* and inds itself when the pool is empty.  range(n) is empty for n <= 0.
SamplePool(inds, n, randomness) ==
    IF Len(inds) > 0
    THEN IF randomness
         THEN InjSeqs(Range(inds), Max(n, 0))
         ELSE {SubSeq(inds, 1, Max(n, 0))}
    ELSE {inds}

\* Labels left as the database records them.
KeepLabels(labels, fg_this) == labels

\* labels[fg_rois_per_this_image:] = 0
ClampLabels(labels, fg_this) ==
    [k \in 1..Len(labels) |-> IF k > fg_this THEN 0 ELSE labels[k]]

\* A slice that starts one class too early.
SliceStartClassBefore(cls) == 4 * (cls - 1)

\* start = 4 * cls (0-based position in the expanded row)
SliceStart(cls) == 4 * cls

\* One row of bbox_targets: the deltas at [start, start + 4), 0 elsewhere;
\* rows with clss > 0 only, the others stay as np.zeros made them.
TargetRow(row, num_classes) ==
    [j \in 1..(4 * num_classes) |->
        IF row[1] > 0 /\ j - 1 >= SliceStart(row[1]) /\ j - 1 < SliceStart(row[1]) + 4
        THEN row[2 + (j - 1 - SliceStart(row[1]))]
        ELSE 0]

\* One row of bbox_loss_weights: [1., 1., 1., 1.] at [start, start + 4).
LossRow(row, num_classes) ==
    [j \in 1..(4 * num_classes) |->
        IF row[1] > 0 /\ j - 1 >= SliceStart(row[1]) /\ j - 1 < SliceStart(row[1]) + 4
        THEN 1
        ELSE 0]

\* _get_bbox_regression_labels(bbox_target_data, num_classes)
get_bbox_regression_labels(bbox_target_data, num_classes) ==
    [bbox_targets      |-> [k \in 1..Len(bbox_target_data) |->
                               TargetRow(bbox_target_data[k], num_classes)],
     bbox_loss_weights |-> [k \in 1..Len(bbox_target_data) |->
                               LossRow(bbox_target_data[k], num_classes)]]

\* a[keep_inds]: fancy indexing, a new array.
Take(a, keep_inds) == [k \in 1..Len(keep_inds) |-> a[keep_inds[k]]]

\* A clamp that writes through a view of the stored array.
ClampThroughView(stored, keep_inds, fg_this) ==
    [i \in 1..Len(stored) |->
        IF \E k \in 1..Len(keep_inds) : k > fg_this /\ keep_inds[k] = i
        THEN 0 ELSE stored[i]]

\* roidb['max_overlap_class'] after labels = labels[keep_inds] and
\* labels[fg_rois_per_this_image:] = 0: indexing with the integer array
\* keep_inds makes a new array, labels names it from then on and the clamp
\* writes to it; the stored array is as it was.
StoredAfterClamp(stored, keep_inds, fg_this) == stored

\* The body of _sample_fg_bg_rois once the two pools are sampled as fg_inds
\* and bg_inds: the locals the claims speak of, the returned tuple and the
\* region set roidb refers to as the call leaves it.
SampleResult(db, fg_this, bg_this, fg_inds, bg_inds, num_classes) ==
    LET keep_inds == fg_inds \o bg_inds
        data      == Take(db.bb_targets, keep_inds)
        expanded  == get_bbox_regression_labels(data, num_classes)
    IN  [fg_rois_per_this_image |-> fg_this,
         bg_rois_per_this_image |-> bg_this,
         keep_inds         |-> keep_inds,
         labels            |-> ClampLabels(Take(db.max_overlap_class, keep_inds), fg_this),
         overlaps          |-> Take(db.max_overlap_area, keep_inds),
         rois              |-> Take(db.bb, keep_inds),
         bbox_target_data  |-> data,
         bbox_targets      |-> expanded.bbox_targets,
         bbox_loss_weights |-> expanded.bbox_loss_weights,
         roidb_after       |-> [db EXCEPT !.max_overlap_class =
                                   StoredAfterClamp(@, keep_inds, fg_this)]]

\* Every result _sample_fg_bg_rois(db, fg_rois_per_image, rois_per_image,
\* num_classes, randomness) may return.
sample_fg_bg_rois(db, fg_rois_per_image, rois_per_image, num_classes, randomness) ==
    LET fg_pool == FgInds(db.max_overlap_area)
        fg_this == FgRoisPerThisImage(fg_rois_per_image, Len(fg_pool))
        bg_pool == BgInds(db.max_overlap_area)
        bg_this == BgRoisPerThisImage(rois_per_image, fg_this, Len(bg_pool))
    IN  {SampleResult(db, fg_this, bg_this, f, b, num_classes) :
            f \in SamplePool(fg_pool, fg_this, randomness),
            b \in SamplePool(bg_pool, bg_this, randomness)}

\* The foreground quotas tried with rois_per_image = n, in quarters: the one
\* __init__ computes, FRCN_FG_FRAC * n, and every whole number up to n.
FgQuotas(n) == {n} \cup {FgFracDen * q : q \in 0..n}

SInit == roidb = <<>> /\ s_args = <<>> /\ s_out = <<>>

\* A call of _sample_fg_bg_rois.
CallSample ==
    /\ s_out = <<>>
    /\ \E db \in RegionSets, n \in 1..MaxRois, rnd \in BOOLEAN :
       \E fg \in FgQuotas(n) :
       \E res \in sample_fg_bg_rois(db, fg, n, NumClasses, rnd) :
          /\ roidb' = db
          /\ s_args' = [fg_rois_per_image |-> fg, rois_per_image |-> n,
                        num_classes |-> NumClasses, randomness |-> rnd]
          /\ s_out' = res

\* The caller drops the result.
DropSample ==
    /\ s_out # <<>>
    /\ roidb' = <<>> /\ s_args' = <<>> /\ s_out' = <<>>

InitSample == OvIdle /\ SInit /\ LIdle /\ BIdle /\ ItIdle

NextSample ==
    \/ CallSample /\ UNCHANGED <<ov_vars, l_vars, b_vars, it_vars>>
    \/ DropSample /\ UNCHANGED <<ov_vars, l_vars, b_vars, it_vars>>

SpecSample == InitSample /\ [][NextSample]_vars

\* The sizes of the two pools of the region set of the call, counted from
\* the stored scores.
PoolF == Cardinality({k \in 1..Len(roidb.max_overlap_area) :
                         roidb.max_overlap_area[k] >= FRCN_FG_IOU_THRE})
PoolB == Cardinality({k \in 1..Len(roidb.max_overlap_area) :
                         /\ roidb.max_overlap_area[k] >= FRCN_BG_IOU_THRE_LOW
                         /\ roidb.max_overlap_area[k] < FRCN_BG_IOU_THRE_HIGH})

\* The call had whole-number quotas with fg_quota <= total_quota.
IntegerQuotas ==
    /\ s_args.fg_rois_per_image % FgFracDen = 0
    /\ s_args.fg_rois_per_image \div FgFracDen <= s_args.rois_per_image

FgQuota == s_args.fg_rois_per_image \div FgFracDen
FgTaken == Min(FgQuota, PoolF)
BgTaken == Min(s_args.rois_per_image - FgTaken, PoolB)

\* C1: with whole-number quotas fg_quota <= total_quota the call returns
\* exactly min(fg_quota, F) foreground regions followed by exactly
\* min(total_quota - fg_taken, B) background regions; the total never exceeds
\* total_quota and a foreground shortfall is not made up.
C1_QuotaCounts ==
    (s_out # <<>> /\ IntegerQuotas) =>
        /\ Len(s_out.overlaps) = FgTaken + BgTaken
        /\ Len(s_out.labels) = FgTaken + BgTaken
        /\ Len(s_out.rois) = FgTaken + BgTaken
        /\ Len(s_out.bbox_targets) = FgTaken + BgTaken
        /\ Len(s_out.bbox_loss_weights) = FgTaken + BgTaken
        /\ \A k \in 1..Len(s_out.overlaps) :
              (k <= FgTaken) <=> (s_out.overlaps[k] >= FRCN_FG_IOU_THRE)
        /\ Len(s_out.overlaps) <= s_args.rois_per_image

\* A foreground shortfall: fewer foreground candidates than the quota, with
\* background candidates at hand.
C1_Witness ==
    /\ s_out # <<>>
    /\ IntegerQuotas
    /\ PoolF >= 1
    /\ PoolF < FgQuota
    /\ PoolB >= 2
    /\ Len(s_out.overlaps) = s_args.rois_per_image

\* C2: every returned region taken from the background pool has label 0,
\* whatever max_overlap_class the region set records for it.
C2_BackgroundLabelZero ==
    s_out # <<>> =>
        \A k \in 1..Len(s_out.labels) :
            (/\ s_out.overlaps[k] >= FRCN_BG_IOU_THRE_LOW
             /\ s_out.overlaps[k] < FRCN_BG_IOU_THRE_HIGH) => s_out.labels[k] = 0

\* A background region is returned whose recorded class is not 0.
C2_Witness ==
    /\ s_out # <<>>
    /\ \E k \in 1..Len(s_out.labels) :
          /\ s_out.overlaps[k] < FRCN_BG_IOU_THRE_HIGH
          /\ roidb.max_overlap_class[s_out.keep_inds[k]] # 0
          /\ s_out.labels[k] = 0

\* C3: every region of the foreground block has score >= 0.5, every region of
\* the background block has 0.1 <= score < 0.5, a candidate with score < 0.1
\* is never returned, and no candidate is returned twice.
C3_PoolsRespected ==
    s_out # <<>> =>
        /\ \A k \in 1..Len(s_out.keep_inds) :
              /\ s_out.keep_inds[k] \in 1..Len(roidb.bb)
              /\ s_out.rois[k] = roidb.bb[s_out.keep_inds[k]]
              /\ s_out.overlaps[k] = roidb.max_overlap_area[s_out.keep_inds[k]]
              /\ s_out.overlaps[k] >= FRCN_BG_IOU_THRE_LOW
              /\ k <= s_out.fg_rois_per_this_image =>
                    s_out.overlaps[k] >= FRCN_FG_IOU_THRE
              /\ k > s_out.fg_rois_per_this_image =>
                    /\ s_out.overlaps[k] >= FRCN_BG_IOU_THRE_LOW
                    /\ s_out.overlaps[k] < FRCN_BG_IOU_THRE_HIGH
        /\ \A k, m \in 1..Len(s_out.keep_inds) :
              k # m => /\ s_out.keep_inds[k] # s_out.keep_inds[m]
                       /\ s_out.rois[k] # s_out.rois[m]

\* A random call on a region set that has a candidate below 0.1, and that
\* returns both a foreground and a background region.
C3_Witness ==
    /\ s_out # <<>>
    /\ s_args.randomness
    /\ \E k \in 1..Len(roidb.max_overlap_area) :
          roidb.max_overlap_area[k] < FRCN_BG_IOU_THRE_LOW
    /\ s_out.fg_rois_per_this_image >= 1
    /\ s_out.bg_rois_per_this_image >= 1
    /\ Len(s_out.keep_inds) >= 2

\* C4: _get_bbox_regression_labels maps each compact row (c, dx, dy, dw, dh)
\* to a target row and a mask row of length 4 * num_classes: for c > 0 the
\* target row holds (dx, dy, dw, dh) at positions [4c, 4c + 4) and 0
\* elsewhere and the mask row is 1 at exactly those positions; for c = 0 both
\* rows are all zeros.
C4_ExpandedRows ==
    s_out # <<>> =>
        /\ Len(s_out.bbox_targets) = Len(s_out.bbox_target_data)
        /\ Len(s_out.bbox_loss_weights) = Len(s_out.bbox_target_data)
        /\ \A k \in 1..Len(s_out.bbox_target_data) :
              LET row == s_out.bbox_target_data[k]
                  c   == row[1]
                  t   == s_out.bbox_targets[k]
                  w   == s_out.bbox_loss_weights[k]
              IN  /\ Len(t) = 4 * s_args.num_classes
                  /\ Len(w) = 4 * s_args.num_classes
                  /\ \A p \in 0..(4 * s_args.num_classes - 1) :
                        IF c > 0 /\ p >= 4 * c /\ p < 4 * c + 4
                        THEN t[p + 1] = row[p - 4 * c + 2] /\ w[p + 1] = 1
                        ELSE t[p + 1] = 0 /\ w[p + 1] = 0

\* A call that expands a row of a class above 0 with deltas that are not 0 and
\* a row of class 0.
C4_Witness ==
    /\ s_out # <<>>
    /\ \E k \in 1..Len(s_out.bbox_target_data) :
          /\ s_out.bbox_target_data[k][1] = NumClasses - 1
          /\ s_out.bbox_target_data[k][2] # 0
          /\ s_out.bbox_loss_weights[k][4 * (NumClasses - 1) + 1] = 1
    /\ \E k \in 1..Len(s_out.bbox_target_data) : s_out.bbox_target_data[k][1] = 0

\* C14: with randomize false the foreground block is the first fg_taken
\* members of the foreground pool in database order and the background block
\* the first bg_taken members of the background pool in database order, so
\* the region set and the quotas determine the result.
C14_FirstInDatabaseOrder ==
    (s_out # <<>> /\ ~s_args.randomness) =>
        LET sc      == roidb.max_overlap_area
            fg      == s_out.fg_rois_per_this_image
            bg      == s_out.bg_rois_per_this_image
            IsFg(i) == sc[i] >= 5
            IsBg(i) == sc[i] >= 1 /\ sc[i] < 5
        IN  /\ Len(s_out.keep_inds) = fg + bg
            /\ \A k \in 1..fg :
                   /\ IsFg(s_out.keep_inds[k])
                   /\ Cardinality({m \in 1..s_out.keep_inds[k] : IsFg(m)}) = k
            /\ \A k \in 1..bg :
                   /\ IsBg(s_out.keep_inds[fg + k])
                   /\ Cardinality({m \in 1..s_out.keep_inds[fg + k] : IsBg(m)}) = k
            /\ sample_fg_bg_rois(roidb, s_args.fg_rois_per_image, s_args.rois_per_image,
                                 s_args.num_classes, FALSE) = {s_out}

\* A deterministic call that leaves out the second of two foreground
\* candidates and returns a background candidate after the first.
C14_Witness ==
    /\ s_out # <<>>
    /\ ~s_args.randomness
    /\ PoolF = 2
    /\ s_out.fg_rois_per_this_image = 1
    /\ s_out.bg_rois_per_this_image = 1
    /\ s_out.keep_inds[2] < s_out.keep_inds[1]

\* C18: for every region returned, on a database built with any use
\* threshold overlap_thre, the label and the regression mask agree: a region
\* with label 0 has an all-zero mask row and an all-zero target row, and a
\* region with label c > 0 has its mask row equal to 1 exactly on the slice
\* [4c, 4c + 4).
C18_LabelAndMaskAgree ==
    s_out # <<>> =>
        \A k \in 1..Len(s_out.labels) :
            \A p \in 0..(4 * s_args.num_classes - 1) :
                /\ s_out.labels[k] = 0 =>
                      /\ s_out.bbox_loss_weights[k][p + 1] = 0
                      /\ s_out.bbox_targets[k][p + 1] = 0
                /\ s_out.labels[k] > 0 =>
                      (s_out.bbox_loss_weights[k][p + 1] = 1
                          <=> (p >= 4 * s_out.labels[k] /\ p < 4 * s_out.labels[k] + 4))

\* A region of the background block, label 0, is returned with a mask row
\* that is not zero.
C18_Witness ==
    /\ s_out # <<>>
    /\ \E k \in 1..Len(s_out.labels) :
          /\ k > s_out.fg_rois_per_this_image
          /\ s_out.labels[k] = 0
          /\ \E p \in 1..(4 * s_args.num_classes) : s_out.bbox_loss_weights[k][p] = 1

(***************************************************************************)
(* Proposal loader: one pass of the loop of                                *)
(* PASCALVOC.load_pascal_roi_selectivesearch, with _compute_bb_targets     *)
(*                                                                         *)
(* Overlaps are the exact quotients of the overlap engine.  A delta dx or  *)
(* dy is the quotient [num, den] with den standing for the proposal's      *)
(* extent plus FRCN_EPS; a delta dw or dh is the logarithm of the quotient *)
(* [num, den] it holds.  The zero np.zeros leaves is ZeroDelta.            *)
(***************************************************************************)

\* Largest number of ground-truth boxes of one image.
MaxGt == 2
\* Largest number of proposals of one image.
MaxLoadProps == 2
\* Largest class index of a ground-truth box; self.num_classes is one more.
MaxGtClass == 2

\* Ground-truth boxes and proposals: boxes standing on row 0.
GtBoxes == {<<x1, 0, x2, y2>> : x1 \in 0..MaxCoord, x2 \in 0..MaxCoord, y2 \in 0..1}
             \cap {b \in [1..4 -> 0..MaxCoord] : WellFormed(b)}
ProposalBoxes == {b \in GtBoxes : YMax(b) = 1}

\* Every sequence of 1 to n members of S.
SeqsUpTo(S, n) == UNION {[1..m -> S] : m \in 1..n}

\* What one pass reads: the image's ground truth, its proposals and
\* self.overlap_thre (in tenths).
LoadInputs ==
    {[gt_bb |-> [g \in 1..Len(gts) |-> gts[g].box],
      gt_classes |-> [g \in 1..Len(gts) |-> gts[g].class],
      bb |-> ps,
      num_classes |-> MaxGtClass + 1,
      overlap_thre |-> t] :
        gts \in SeqsUpTo([box : GtBoxes, class : 1..MaxGtClass], MaxGt),
        ps \in SeqsUpTo(ProposalBoxes, MaxLoadProps),
        t \in OverlapThresholds}

ZeroQuot == [num |-> 0, den |-> 1]
RatLess(p, q) == p.num * q.den < q.num * p.den

\* row.max(): the largest member of a row of quotients.
RECURSIVE RowMax(_, _)
RowMax(row, n) ==
    IF n = 1 THEN row[1]
    ELSE LET m == RowMax(row, n - 1) IN IF RatLess(m, row[n]) THEN row[n] ELSE m

\* row.argmax(): the first position of the largest member.
ArgMax(row) ==
    CHOOSE g \in 1..Len(row) :
        /\ \A h \in 1..Len(row) : ~RatLess(row[g], row[h])
        /\ \A h \in 1..(g - 1) : RatLess(row[h], row[g])

\* overlaps[I, gt_classes[max_overlap_arg[I]]] = max_overlap_area[I] with
\* I = np.where(max_overlap_area > 0)[0], on np.zeros((num_boxes, num_classes)):
\* row r of the table, by class 0 .. num_classes - 1.
OverlapsTableRow(area, cls, num_classes) ==
    [c \in 1..num_classes |-> IF area.num > 0 /\ c - 1 = cls THEN area ELSE ZeroQuot]

\* A proposal is used when its score is strictly above the threshold.
UsedAboveOnly(score, overlap_thre) == ScoreScale * score.num > overlap_thre * score.den

\* use_idx = np.where(max_overlaps >= self.overlap_thre)[0]
UsedForRegression(score, overlap_thre) ==
    ScoreScale * score.num >= overlap_thre * score.den

\* The delta np.zeros((num_boxes, 5)) holds.
ZeroDelta == [num |-> 0, den |-> 1]

\* _compute_bb_targets for one pair: widths and heights are x2 - x1 and
\* y2 - y1 (+ FRCN_EPS), centres are x1 + 0.5 * width (kept doubled), dx and
\* dy the centre differences over the proposal's extent, dw and dh the logs
\* of the extent ratios.
compute_bb_targets(gt_box, rp_box, label) ==
    LET rp_widths  == rp_box[3] - rp_box[1]
        rp_heights == rp_box[4] - rp_box[2]
        rp_ctr_x2  == 2 * rp_box[1] + rp_widths
        rp_ctr_y2  == 2 * rp_box[2] + rp_heights
        gt_widths  == gt_box[3] - gt_box[1]
        gt_heights == gt_box[4] - gt_box[2]
        gt_ctr_x2  == 2 * gt_box[1] + gt_widths
        gt_ctr_y2  == 2 * gt_box[2] + gt_heights
    IN  <<label,
          [num |-> gt_ctr_x2 - rp_ctr_x2, den |-> 2 * rp_widths],
          [num |-> gt_ctr_y2 - rp_ctr_y2, den |-> 2 * rp_heights],
          [num |-> gt_widths, den |-> rp_widths],
          [num |-> gt_heights, den |-> rp_heights]>>

\* The body of the loop for one image: the locals and the roi_ss entry.
LoadEntry(in) ==
    LET gt_overlap        == calculate_bb_overlap(in.bb, in.gt_bb)
        num_boxes         == Len(in.bb)
        max_overlap_area  == [r \in 1..num_boxes |-> RowMax(gt_overlap[r], Len(in.gt_bb))]
        max_overlap_arg   == [r \in 1..num_boxes |-> ArgMax(gt_overlap[r])]
        overlaps          == [r \in 1..num_boxes |->
                                 OverlapsTableRow(max_overlap_area[r],
                                                  in.gt_classes[max_overlap_arg[r]],
                                                  in.num_classes)]
        max_overlap_class == [r \in 1..num_boxes |-> ArgMax(overlaps[r]) - 1]
        max_overlaps      == [r \in 1..num_boxes |-> RowMax(overlaps[r], in.num_classes)]
    IN  [ss_bb             |-> in.bb,
         gt_classes        |-> [r \in 1..num_boxes |-> 0],
         gt_overlaps       |-> overlaps,
         max_overlap_area  |-> max_overlap_area,
         max_overlap_arg   |-> max_overlap_arg,
         max_overlap_class |-> max_overlap_class,
         bb_targets        |-> [r \in 1..num_boxes |->
             IF UsedForRegression(max_overlaps[r], in.overlap_thre)
             THEN compute_bb_targets(in.gt_bb[max_overlap_arg[r]], in.bb[r],
                                     max_overlap_class[r])
             ELSE <<0, ZeroDelta, ZeroDelta, ZeroDelta, ZeroDelta>>]]

LInit == l_in = <<>> /\ l_out = <<>>

\* One pass of for i in xrange(ss_num_img).
LoadImage ==
    /\ l_out = <<>>
    /\ \E in \in LoadInputs :
          /\ l_in' = in
          /\ l_out' = LoadEntry(in)

\* The entry is appended to roi_ss and the pass is over.
AppendEntry ==
    /\ l_out # <<>>
    /\ l_in' = <<>> /\ l_out' = <<>>

InitLoad == OvIdle /\ SIdle /\ LInit /\ BIdle /\ ItIdle

NextLoad ==
    \/ LoadImage /\ UNCHANGED <<ov_vars, s_vars, b_vars, it_vars>>
    \/ AppendEntry /\ UNCHANGED <<ov_vars, s_vars, b_vars, it_vars>>

SpecLoad == InitLoad /\ [][NextLoad]_vars

\* The overlap of proposal r and ground-truth box g of the pass, and whether
\* g achieves the best overlap of r.
LoadOverlap(r, g) == calculate_bb_overlap(<<l_in.bb[r]>>, <<l_in.gt_bb[g]>>)[1][1]
BestGt(r, g) ==
    \A h \in 1..Len(l_in.gt_bb) :
        LoadOverlap(r, h).num * LoadOverlap(r, g).den
            <= LoadOverlap(r, g).num * LoadOverlap(r, h).den

\* C13: for every proposal, before normalization: if its best overlap
\* against the image's ground-truth boxes is below the use threshold, the
\* class stored in its regression target is 0 and its four deltas are 0;
\* otherwise the class stored is the class of a ground-truth box achieving
\* its maximum overlap and the deltas are the encoding of that same box
\* against the proposal.
C13_TargetsFollowBestGt ==
    l_out # <<>> =>
        \A r \in 1..Len(l_in.bb) :
            \E g \in 1..Len(l_in.gt_bb) :
                /\ BestGt(r, g)
                /\ IF 10 * LoadOverlap(r, g).num < l_in.overlap_thre * LoadOverlap(r, g).den
                   THEN l_out.bb_targets[r] =
                            <<0, [num |-> 0, den |-> 1], [num |-> 0, den |-> 1],
                                 [num |-> 0, den |-> 1], [num |-> 0, den |-> 1]>>
                   ELSE LET p == l_in.bb[r]
                            b == l_in.gt_bb[g]
                        IN  l_out.bb_targets[r] =
                                <<l_in.gt_classes[g],
                                  [num |-> (b[1] + b[3]) - (p[1] + p[3]),
                                   den |-> 2 * (p[3] - p[1])],
                                  [num |-> (b[2] + b[4]) - (p[2] + p[4]),
                                   den |-> 2 * (p[4] - p[2])],
                                  [num |-> b[3] - b[1], den |-> p[3] - p[1]],
                                  [num |-> b[4] - b[2], den |-> p[4] - p[2]]>>

\* An image with two ground-truth boxes of different classes and two
\* proposals: one scores exactly the default threshold against the second
\* box and is used with that box's class, the other stays below the threshold
\* although it overlaps a box.
C13_Witness ==
    /\ l_out # <<>>
    /\ l_in.overlap_thre = FRCN_IOU_THRE
    /\ Len(l_in.gt_bb) = 2
    /\ l_in.gt_classes[1] # l_in.gt_classes[2]
    /\ \E r \in 1..Len(l_in.bb) :
          /\ l_out.max_overlap_arg[r] = 2
          /\ 2 * l_out.max_overlap_area[r].num = l_out.max_overlap_area[r].den
          /\ l_out.bb_targets[r][1] = l_in.gt_classes[2]
          /\ l_out.bb_targets[r][2].num # 0
    /\ \E r \in 1..Len(l_in.bb) :
          /\ l_out.max_overlap_area[r].num > 0
          /\ l_out.bb_targets[r][1] = 0

(***************************************************************************)
(* Region database builder: PASCALVOC.combine_gt_ss_roi                    *)
(*                                                                         *)
(* A regression delta of the database is the number n / sqrt(d2), kept as  *)
(* the record [n, d2]: a raw delta t is [t, 1], and the normalised delta   *)
(* (t - sum/count) / sqrt(sq/count - (sum/count)^2) is                     *)
(* [t*count - sum, count*sq - sum^2].  d2 = 0 is the division by a zero    *)
(* standard deviation (nan or inf in numpy).  FRCN_EPS (1e-14), added to   *)
(* class_counts, is below the resolution of this exact arithmetic.         *)
(*                                                                         *)
(* numpy arrays are objects: roi_gt_ss[i]['bb_targets'] is a reference     *)
(* into heap, and two entries holding the same reference share one array.  *)
(***************************************************************************)

\* Largest number of images of the dataset.
MaxImages == 2
\* Largest number of selective-search proposals of one image.
MaxProps == 2
\* Width in pixels of every image.
ImgWidth == 6

Raw(t) == [n |-> t, d2 |-> 1]

\* The raw deltas (dx, dy, dw, dh) of a proposal used for regression.
BuildDeltas == {<<0, 0, 0, 0>>, <<1, 1, 0, 2>>, <<0 - 1, 2, 1, 0>>, <<2, 0, 1, 1>>}

\* The ground-truth entry of an image with one object of class c:
\* load_pascal_annotation gives overlap 1.0 and the target (c, 0, 0, 0, 0).
GtEntry(id, c) ==
    [gt_bb             |-> <<<<1, 1, 3, 3>>>>,
     gt_classes        |-> <<c>>,
     max_overlap_area  |-> <<ScoreScale>>,
     max_overlap_class |-> <<c>>,
     img_id            |-> id,
     bb_targets        |-> <<<<c, Raw(0), Raw(0), Raw(0), Raw(0)>>>>]

\* One proposal as load_pascal_roi_selectivesearch leaves it: not used
\* (no overlap, class 0, target zero) or used (class c of the ground truth,
\* a target).
ProposalKinds(c) ==
    {[score |-> 0, class |-> 0, target |-> <<0, Raw(0), Raw(0), Raw(0), Raw(0)>>]}
    \cup {[score |-> FRCN_IOU_THRE, class |-> c,
           target |-> <<c, Raw(d[1]), Raw(d[2]), Raw(d[3]), Raw(d[4])>>] :
             d \in BuildDeltas}

\* The selective-search entry of an image made of a sequence of proposals.
SsEntry(ps) ==
    [ss_bb             |-> [k \in 1..Len(ps) |-> <<k - 1, 0, k + 1, 2>>],
     gt_classes        |-> [k \in 1..Len(ps) |-> 0],
     max_overlap_area  |-> [k \in 1..Len(ps) |-> ps[k].score],
     max_overlap_class |-> [k \in 1..Len(ps) |-> ps[k].class],
     bb_targets        |-> [k \in 1..Len(ps) |-> ps[k].target]]

\* Everything one image can contribute: its ground truth and its proposals.
ImageInputs(id) ==
    UNION {{[gt |-> GtEntry(id, c), ss |-> SsEntry(ps)] :
               ps \in UNION {[1..m -> ProposalKinds(c)] : m \in 0..MaxProps}} :
           c \in 1..(NumClasses - 1)}

\* The inputs of a build: self.roi_gt and self.roi_ss by image, and
\* self.add_flipped.
BuildInputs ==
    UNION {{[images |-> im, add_flipped |-> fl] :
              im \in {f \in [1..n -> UNION {ImageInputs(id) : id \in 1..n}] :
                         \A id \in 1..n : f[id].gt.img_id = id},
              fl \in BOOLEAN} : n \in 1..MaxImages}

NumImagesOf(in) == Len(in.images)

\* self.num_image_entries = num_images * 2 if add_flipped else num_images
NumImageEntries(num_images, add_flipped) ==
    IF add_flipped THEN num_images * 2 ELSE num_images

ZeroStats ==
    [class_counts |-> [c \in 0..(NumClasses - 1) |-> 0],
     sums         |-> [c \in 0..(NumClasses - 1) |-> <<0, 0, 0, 0>>],
     squared_sums |-> [c \in 0..(NumClasses - 1) |-> <<0, 0, 0, 0>>]]

\* cls_inds = np.where(bb_targets[:, 0] == cls)[0]
ClsInds(rows, cls) == {k \in 1..Len(rows) : rows[k][1] = cls}

RECURSIVE SumOver(_, _, _)
\* The sum over k in S of f[k], a sequence of numbers.
SumOver(f, S, n) ==
    IF n = 0 THEN 0
    ELSE (IF n \in S THEN f[n] ELSE 0) + SumOver(f, S, n - 1)

\* Column j (1..4) of the raw deltas of the rows.
DeltaCol(rows, j) == [k \in 1..Len(rows) |-> rows[k][j + 1].n]
DeltaColSq(rows, j) == [k \in 1..Len(rows) |-> rows[k][j + 1].n * rows[k][j + 1].n]

\* for cls in xrange(1, num_classes): class_counts, sums and squared_sums
\* take in the rows of class cls of one array.
Accumulate(st, rows) ==
    [class_counts |-> [c \in 0..(NumClasses - 1) |->
         IF c >= 1 THEN st.class_counts[c] + Cardinality(ClsInds(rows, c))
                   ELSE st.class_counts[c]],
     sums |-> [c \in 0..(NumClasses - 1) |->
         IF c >= 1
         THEN [j \in 1..4 |-> st.sums[c][j]
                              + SumOver(DeltaCol(rows, j), ClsInds(rows, c), Len(rows))]
         ELSE st.sums[c]],
     squared_sums |-> [c \in 0..(NumClasses - 1) |->
         IF c >= 1
         THEN [j \in 1..4 |-> st.squared_sums[c][j]
                              + SumOver(DeltaColSq(rows, j), ClsInds(rows, c), Len(rows))]
         ELSE st.squared_sums[c]]]

\* bb_targets_flipped[:, 1] *= -1, on the rows of one array
NegateDx(rows) ==
    [k \in 1..Len(rows) |->
        [rows[k] EXCEPT ![2] = [n |-> 0 - rows[k][2].n, d2 |-> rows[k][2].d2]]]

\* bb_targets_flipped = bb_targets: the same array object, no copy.
FlippedTargetsRef(ref) == ref

\* A reflection that forgets the - 1 of the last pixel column.
FlipBoxNoMinusOne(b, width) == <<width - XMax(b), YMin(b), width - XMin(b), YMax(b)>>

\* fliped_bb: x_min = width - x_max - 1, x_max = width - x_min - 1
FlipBox(b, width) == <<width - XMax(b) - 1, YMin(b), width - XMin(b) - 1, YMax(b)>>

\* targets[cls_inds, 1:] -= means[cls, :]; targets[cls_inds, 1:] /= stds[cls, :]
\* for one raw delta t of class c, column j.
NormalizedDelta(t, st, c, j) ==
    [n  |-> t * st.class_counts[c] - st.sums[c][j],
     d2 |-> st.class_counts[c] * st.squared_sums[c][j] - st.sums[c][j] * st.sums[c][j]]

\* The second loop's body on one array: every row of a class 1..num_classes-1.
NormalizeRows(rows, st) ==
    [k \in 1..Len(rows) |->
        IF rows[k][1] >= 1
        THEN <<rows[k][1]>> \o [j \in 1..4 |-> NormalizedDelta(rows[k][j + 1].n, st, rows[k][1], j)]
        ELSE rows[k]]

\* self.roi_gt and self.roi_ss are loaded; combine_gt_ss_roi is entered:
\* roi_gt_ss = [None] * self.num_image_entries, the statistics are zero.
BInit ==
    /\ b_in \in BuildInputs
    /\ b_pc = "combine"
    /\ b_i = 1
    /\ heap = <<>>
    /\ roi_gt_ss = [e \in 1..NumImageEntries(NumImagesOf(b_in), b_in.add_flipped) |-> <<>>]
    /\ b_stats = ZeroStats

\* roi_gt_ss[i] of the first loop.
CombinedEntry(gt, ss, ref) ==
    [bb                |-> gt.gt_bb \o ss.ss_bb,
     gt_classes        |-> gt.gt_classes \o ss.gt_classes,
     max_overlap_area  |-> gt.max_overlap_area \o ss.max_overlap_area,
     max_overlap_class |-> gt.max_overlap_class \o ss.max_overlap_class,
     img_id            |-> gt.img_id,
     flipped           |-> FALSE,
     bb_targets        |-> ref]

\* roi_gt_ss[i + self.num_images] of the first loop.
FlippedEntry(e, ref) ==
    [bb                |-> [k \in 1..Len(e.bb) |-> FlipBox(e.bb[k], ImgWidth)],
     gt_classes        |-> e.gt_classes,
     max_overlap_area  |-> e.max_overlap_area,
     max_overlap_class |-> e.max_overlap_class,
     img_id            |-> e.img_id,
     flipped           |-> TRUE,
     bb_targets        |-> ref]

\* One pass of the first loop, for i in xrange(self.num_images).
CombineImage ==
    /\ b_pc = "combine"
    /\ b_i <= NumImagesOf(b_in)
    /\ LET n     == NumImagesOf(b_in)
           gt    == b_in.images[b_i].gt
           ss    == b_in.images[b_i].ss
           ref   == Len(heap) + 1
           rows  == gt.bb_targets \o ss.bb_targets
           entry == CombinedEntry(gt, ss, ref)
           st1   == Accumulate(b_stats, rows)
           fref  == FlippedTargetsRef(ref)
           heap1 == Append(heap, rows)
           heap2 == [heap1 EXCEPT ![fref] = NegateDx(heap1[fref])]
       IN  IF b_in.add_flipped
           THEN /\ heap' = heap2
                /\ roi_gt_ss' = [roi_gt_ss EXCEPT ![b_i] = entry,
                                                  ![b_i + n] = FlippedEntry(entry, fref)]
                /\ b_stats' = Accumulate(st1, heap2[fref])
           ELSE /\ heap' = heap1
                /\ roi_gt_ss' = [roi_gt_ss EXCEPT ![b_i] = entry]
                /\ b_stats' = st1
    /\ b_i' = b_i + 1
    /\ UNCHANGED <<b_in, b_pc>>

\* means = sums / class_counts; stds = np.sqrt(squared_sums / class_counts -
\* means ** 2): the quotients stay in b_stats, NormalizedDelta forms them.
ComputeMeansStds ==
    /\ b_pc = "combine"
    /\ b_i > NumImagesOf(b_in)
    /\ b_pc' = "normalize"
    /\ b_i' = 1
    /\ UNCHANGED <<b_in, heap, roi_gt_ss, b_stats>>

\* One pass of the second loop, for i in xrange(self.num_images).
NormalizeImage ==
    /\ b_pc = "normalize"
    /\ b_i <= NumImagesOf(b_in)
    /\ LET ref == roi_gt_ss[b_i].bb_targets
       IN  heap' = [heap EXCEPT ![ref] = NormalizeRows(heap[ref], b_stats)]
    /\ b_i' = b_i + 1
    /\ UNCHANGED <<b_in, b_pc, roi_gt_ss, b_stats>>

\* return roi_gt_ss
ReturnRoiDb ==
    /\ b_pc = "normalize"
    /\ b_i > NumImagesOf(b_in)
    /\ b_pc' = "done"
    /\ UNCHANGED <<b_in, b_i, heap, roi_gt_ss, b_stats>>

InitBuild == OvIdle /\ SIdle /\ LIdle /\ BInit /\ ItIdle

NextBuild ==
    \/ CombineImage /\ UNCHANGED <<ov_vars, s_vars, l_vars, it_vars>>
    \/ ComputeMeansStds /\ UNCHANGED <<ov_vars, s_vars, l_vars, it_vars>>
    \/ NormalizeImage /\ UNCHANGED <<ov_vars, s_vars, l_vars, it_vars>>
    \/ ReturnRoiDb /\ UNCHANGED <<ov_vars, s_vars, l_vars, it_vars>>

SpecBuild == InitBuild /\ [][NextBuild]_vars

\* The rows stored for entry e of the built database.
StoredRows(e) == heap[roi_gt_ss[e].bb_targets]

\* C5: in a flip-augmented database, for every image i and candidate k, the
\* dx stored in the mirrored set (index i + num_images) is the negation of
\* the dx stored in the original set (index i), while dy, dw and dh are equal
\* in both sets; the two sets differ in sign whenever dx is not zero.
C5_FlippedDxNegated ==
    (b_pc = "done" /\ b_in.add_flipped) =>
        \A i \in 1..NumImagesOf(b_in) :
            \A k \in 1..Len(StoredRows(i)) :
                LET o == StoredRows(i)[k]
                    f == StoredRows(i + NumImagesOf(b_in))[k]
                IN  /\ f[1] = o[1]
                    /\ f[2].n = 0 - o[2].n
                    /\ f[2].d2 = o[2].d2
                    /\ f[3] = o[3] /\ f[4] = o[4] /\ f[5] = o[5]
                    /\ (o[2].n # 0 => f[2] # o[2])

\* The stored values of column j of every row of class c over the whole
\* database, entry by entry: the numerators n and the common d2.
ClassRowsOf(e, c) == {k \in 1..Len(StoredRows(e)) : StoredRows(e)[k][1] = c}

RECURSIVE SumEntries(_, _, _, _)
\* The sum over the entries 1..e of the sum over the rows of class c of
\* F(n) for the stored numerator n of column j; Pow is 0 (count), 1 or 2.
SumEntries(e, c, j, Pow) ==
    IF e = 0 THEN 0
    ELSE SumEntries(e - 1, c, j, Pow)
         + SumOver([k \in 1..Len(StoredRows(e)) |->
                       CASE Pow = 0 -> 1
                         [] Pow = 1 -> StoredRows(e)[k][j + 1].n
                         [] OTHER   -> StoredRows(e)[k][j + 1].n * StoredRows(e)[k][j + 1].n],
                   ClassRowsOf(e, c), Len(StoredRows(e)))

\* C6: in every built database, flip-augmented or not, each non-background
\* class present has, for each of the four components, mean 0 and standard
\* deviation 1 over all of that class's stored targets: with the stored value
\* n / sqrt(d2), the n sum to 0 and their squares sum to count * d2.  Stated
\* for the components whose rewrite is defined (d2 > 0, a standard deviation
\* that is not zero).
C6_NormalizedMeanStd ==
    b_pc = "done" =>
        \A c \in 1..(NumClasses - 1), j \in 1..4 :
            LET m  == SumEntries(Len(roi_gt_ss), c, j, 0)
                d2 == b_stats.class_counts[c] * b_stats.squared_sums[c][j]
                      - b_stats.sums[c][j] * b_stats.sums[c][j]
            IN  (m > 0 /\ d2 > 0) =>
                  /\ \A e \in 1..Len(roi_gt_ss) : \A k \in ClassRowsOf(e, c) :
                        StoredRows(e)[k][j + 1].d2 = d2
                  /\ SumEntries(Len(roi_gt_ss), c, j, 1) = 0
                  /\ SumEntries(Len(roi_gt_ss), c, j, 2) = m * d2

\* C12: flip augmentation maps every box (x_min, y_min, x_max, y_max) of an
\* image of width W to (W - x_max - 1, y_min, W - x_min - 1, y_max); the map
\* keeps x_min <= x_max, leaves the y coordinates as they are, and applied
\* twice it returns the original box.
C12_FlipReflectsBoxes ==
    (b_in # <<>> /\ b_in.add_flipped) =>
        \A i \in 1..NumImagesOf(b_in) :
            roi_gt_ss[i] # <<>> =>
                /\ roi_gt_ss[i + NumImagesOf(b_in)] # <<>>
                /\ roi_gt_ss[i + NumImagesOf(b_in)].flipped
                /\ Len(roi_gt_ss[i + NumImagesOf(b_in)].bb) = Len(roi_gt_ss[i].bb)
                /\ \A k \in 1..Len(roi_gt_ss[i].bb) :
                      LET o == roi_gt_ss[i].bb[k]
                          f == roi_gt_ss[i + NumImagesOf(b_in)].bb[k]
                      IN  /\ f = <<ImgWidth - o[3] - 1, o[2], ImgWidth - o[1] - 1, o[4]>>
                          /\ (o[1] <= o[3]) => (f[1] <= f[3])
                          /\ f[2] = o[2] /\ f[4] = o[4]
                          /\ FlipBox(f, ImgWidth) = o

\* A finished flip-augmented database with an image of several boxes, one of
\* them moved by the reflection.
C12_Witness ==
    /\ b_pc = "done"
    /\ b_in.add_flipped
    /\ \E i \in 1..NumImagesOf(b_in) :
          /\ Len(roi_gt_ss[i].bb) >= 2
          /\ \E k \in 1..Len(roi_gt_ss[i].bb) :
                /\ roi_gt_ss[i + NumImagesOf(b_in)].bb[k] # roi_gt_ss[i].bb[k]
                /\ roi_gt_ss[i].bb[k][1] < roi_gt_ss[i].bb[k][3]

(***************************************************************************)
(* Epoch iterator: PASCALVOC.__init__, __iter__ and reset                  *)
(*                                                                         *)
(* __iter__ is a generator function: a call returns a generator object and *)
(* runs nothing; each next() on the object runs to the next yield, to the  *)
(* end of the loop or to a raise.  Generator objects of one dataset share  *)
(* self; region database entries and shuf_idx positions are 1-based here.  *)
(***************************************************************************)

\* Largest output_type tried; 0, 1 and 2 are the supported ones.
MaxOutputType == 3
\* Largest n_mb tried.
MaxNmb == 1
\* Largest img_per_batch tried.
MaxImgPerBatch == 2
\* Largest rois_per_img tried by the iterator.
MaxIterRois == 4
\* Largest number of images in the index file.
MaxIndexImages == 2
\* Largest number of generator objects alive at once.
MaxGens == 1

\* n_mb=None
None == 0 - 1

\* The candidates of entry e of the region database the iterator reads:
\* entries differ in how many candidates each pool has.
IterCandidates(e) ==
    IF e % 2 = 1
    THEN <<[score |-> FRCN_FG_IOU_THRE, class |-> 1],
           [score |-> FRCN_BG_IOU_THRE_LOW, class |-> 1],
           [score |-> 0, class |-> 0],
           [score |-> FRCN_BG_IOU_THRE_HIGH - 1, class |-> 1]>>
    ELSE <<[score |-> FRCN_BG_IOU_THRE_HIGH - 1, class |-> 1]>>

\* self.roi_db as load_obj or combine_gt_ss_roi returns it.
IterRoiDb(num_image_entries) ==
    [e \in 1..num_image_entries |-> RegionSet(IterCandidates(e), FRCN_IOU_THRE)]

\* im_scale of the image of entry e, from the size of its file.
ImScale(e) == 1 + (e % 2)

\* np.zeros((n, width)): n rows of zeros.
ZeroRows(n, width) == [r \in 1..n |-> [c \in 1..width |-> 0]]

\* The fields __init__ sets, from its arguments and the index file.
NewDataset(output_type, n_mb, img_per_batch, rois_per_img, rois_random_sample, shuffle, add_flipped, num_images) ==
    LET entries == NumImageEntries(num_images, add_flipped)
    IN  [batch_index        |-> 0,
         add_flipped        |-> add_flipped,
         output_type        |-> output_type,
         rois_per_image     |-> rois_per_img,
         img_per_batch      |-> img_per_batch,
         fg_rois_per_image  |-> rois_per_img,
         rois_per_batch     |-> rois_per_img * img_per_batch,
         rois_random_sample |-> rois_random_sample,
         shuffle            |-> shuffle,
         num_classes        |-> NumClasses,
         num_images         |-> num_images,
         num_image_entries  |-> entries,
         nbatches           |-> IF n_mb # None THEN n_mb ELSE entries \div img_per_batch,
         roi_db             |-> IterRoiDb(entries),
         dev_X_rois         |-> ZeroRows(rois_per_img * img_per_batch, 5),
         dev_y_labels_flat  |-> [r \in 1..(rois_per_img * img_per_batch) |-> 0],
         dev_y_bbtargets    |-> ZeroRows(rois_per_img * img_per_batch, 4 * NumClasses),
         dev_y_bbmask       |-> ZeroRows(rois_per_img * img_per_batch, 4 * NumClasses)]

ItInit == self = <<>> /\ gens = <<>>

\* PASCALVOC(...): __init__ runs to its end whatever output_type is.
Construct ==
    /\ self = <<>>
    /\ \E output_type \in 0..MaxOutputType, n_mb \in {None} \cup 0..MaxNmb,
          img_per_batch \in 1..MaxImgPerBatch, rois_per_img \in 1..MaxIterRois,
          rois_random_sample \in BOOLEAN, shuffle \in BOOLEAN,
          add_flipped \in BOOLEAN, num_images \in 1..MaxIndexImages :
          self' = NewDataset(output_type, n_mb, img_per_batch, rois_per_img,
                             rois_random_sample, shuffle, add_flipped, num_images)
    /\ UNCHANGED gens

\* iter(dataset): a new generator object, nothing of the body has run.
IterCall ==
    /\ self # <<>>
    /\ Len(gens) < MaxGens
    /\ gens' = Append(gens, [pc |-> "created", k |-> 0, shuf_idx |-> <<>>,
                             yields |-> <<>>, yielded |-> <<>>])
    /\ UNCHANGED self

\* shuf_idx: range(num_image_entries) if self.shuffle is False, else
\* self.be.rng.permutation(num_image_entries).
ShufIdxChoices(num_image_entries, shuffle) ==
    IF shuffle
    THEN InjSeqs(1..num_image_entries, num_image_entries)
    ELSE {[e \in 1..num_image_entries |-> e]}

\* shuf_idx[start:end] with start = batch_index * img_per_batch and
\* end = (batch_index + 1) * img_per_batch: a slice stops at the list's end.
DbInds(shuf_idx, batch_index, img_per_batch) ==
    SubSeq(shuf_idx, Min(batch_index * img_per_batch, Len(shuf_idx)) + 1,
           Min((batch_index + 1) * img_per_batch, Len(shuf_idx)))

\* A row assignment that lands one row too late.
SetRowsOneLater(a, first, rows) ==
    [r \in 1..Len(a) |->
        IF r > first + 1 /\ r <= first + 1 + Len(rows) THEN rows[r - first - 1] ELSE a[r]]

\* a[first : first + Len(rows)] = rows, first 0-based
SetRows(a, first, rows) ==
    [r \in 1..Len(a) |->
        IF r > first /\ r <= first + Len(rows) THEN rows[r - first] ELSE a[r]]

\* roidb['bb'] after rois = im_rois * im_scale: im_rois is the array
\* rois[keep_inds] made and the product is one more new array.
StoredAfterScale(stored, keep_inds, im_scale) == stored

\* rois_this_image = np.hstack((im_i * ones, im_rois * im_scale))
RoisThisImage(im_i, im_rois, im_scale) ==
    [r \in 1..Len(im_rois) |->
        <<im_i>> \o [c \in 1..4 |-> im_rois[r][c] * im_scale]]

\* The four blobs of one batch as np.zeros makes them, and self.roi_db as
\* the pass finds it.
ZeroBlobs(d) ==
    [roi_db            |-> d.roi_db,
     rois_mb           |-> ZeroRows(d.rois_per_batch, 5),
     labels_blob       |-> [r \in 1..d.rois_per_batch |-> 0],
     bbox_targets_blob |-> ZeroRows(d.rois_per_batch, 4 * d.num_classes),
     bbox_loss_blob    |-> ZeroRows(d.rois_per_batch, 4 * d.num_classes)]

\* The body of for im_i, db in enumerate(mb_db), for image slot im_i
\* (0-based) and one result res of _sample_fg_bg_rois.
FillSlot(d, blobs, im_i, e, res) ==
    LET first == im_i * d.rois_per_image
    IN  [roi_db            |-> [blobs.roi_db EXCEPT ![e] =
                                   [res.roidb_after EXCEPT !.bb =
                                       StoredAfterScale(@, res.keep_inds, ImScale(e))]],
         rois_mb           |-> SetRows(blobs.rois_mb, first,
                                       RoisThisImage(im_i, res.rois, ImScale(e))),
         labels_blob       |-> SetRows(blobs.labels_blob, first, res.labels),
         bbox_targets_blob |-> SetRows(blobs.bbox_targets_blob, first, res.bbox_targets),
         bbox_loss_blob    |-> SetRows(blobs.bbox_loss_blob, first, res.bbox_loss_weights)]

RECURSIVE FillSlots(_, _, _)
\* The blobs after the image slots 0 .. m - 1 of db_inds, every way the
\* sampling may go.
FillSlots(d, db_inds, m) ==
    IF m = 0 THEN {ZeroBlobs(d)}
    ELSE UNION {{FillSlot(d, blobs, m - 1, db_inds[m], res) :
                    res \in sample_fg_bg_rois(blobs.roi_db[db_inds[m]], d.fg_rois_per_image,
                                              d.rois_per_image, d.num_classes,
                                              d.rois_random_sample)} :
                blobs \in FillSlots(d, db_inds, m - 1)}

\* if self.output_type == 0 ... elif == 1 ... elif == 2 ... else: raise
SupportedOutputType(output_type) == output_type \in {0, 1, 2}

\* for self.batch_index in xrange(self.nbatches): the loop is over after
\* k passes when k reaches nbatches.
LoopEnds(k, nbatches) == k >= nbatches

\* self after the device buffers are set from the blobs of batch k.
WithBatch(d, k, blobs) ==
    [d EXCEPT !.batch_index       = k,
              !.roi_db            = blobs.roi_db,
              !.dev_X_rois        = blobs.rois_mb,
              !.dev_y_labels_flat = blobs.labels_blob,
              !.dev_y_bbtargets   = blobs.bbox_targets_blob,
              !.dev_y_bbmask      = blobs.bbox_loss_blob]

\* next() on generator g.  The first next() runs self.batch_index = 0 and
\* draws shuf_idx; then one pass of the loop runs up to its yield or raise,
\* or the loop ends (StopIteration).  yielded is what the device buffers of
\* the yielded pair hold when the consumer receives them.
GenNext(g) ==
    /\ gens[g].pc \in {"created", "suspended"}
    /\ \E shuf \in (IF gens[g].pc = "created"
                    THEN ShufIdxChoices(self.num_image_entries, self.shuffle)
                    ELSE {gens[g].shuf_idx}) :
       LET k    == gens[g].k
           d0   == IF gens[g].pc = "created" THEN [self EXCEPT !.batch_index = 0] ELSE self
           inds == DbInds(shuf, k, d0.img_per_batch)
       IN  IF LoopEnds(k, d0.nbatches)
           THEN /\ self' = d0
                /\ gens' = [gens EXCEPT ![g].pc = "done", ![g].shuf_idx = shuf]
           ELSE \E blobs \in FillSlots(d0, inds, Len(inds)) :
                  /\ self' = WithBatch(d0, k, blobs)
                  /\ IF SupportedOutputType(d0.output_type)
                     THEN gens' = [gens EXCEPT
                                     ![g].pc = "suspended",
                                     ![g].k = k + 1,
                                     ![g].shuf_idx = shuf,
                                     ![g].yields = Append(@, [batch_index |-> self'.batch_index,
                                                              db_inds |-> inds,
                                                              shape |-> d0.output_type]),
                                     ![g].yielded = [dev_X_rois |-> self'.dev_X_rois,
                                                     dev_y_labels_flat |-> self'.dev_y_labels_flat,
                                                     dev_y_bbtargets |-> self'.dev_y_bbtargets,
                                                     dev_y_bbmask |-> self'.dev_y_bbmask]]
                     ELSE gens' = [gens EXCEPT ![g].pc = "raised", ![g].shuf_idx = shuf]

\* dataset.reset()
Reset ==
    /\ self # <<>>
    /\ self.batch_index # 0
    /\ self' = [self EXCEPT !.batch_index = 0]
    /\ UNCHANGED gens

\* The consumer lets go of a generator that has ended.
DropGen ==
    /\ \E g \in 1..Len(gens) :
          /\ gens[g].pc \in {"done", "raised"}
          /\ gens' = [h \in 1..(Len(gens) - 1) |-> IF h < g THEN gens[h] ELSE gens[h + 1]]
    /\ UNCHANGED self

InitIter == OvIdle /\ SIdle /\ LIdle /\ BIdle /\ ItInit

NextIter ==
    \/ Construct /\ UNCHANGED <<ov_vars, s_vars, l_vars, b_vars>>
    \/ IterCall /\ UNCHANGED <<ov_vars, s_vars, l_vars, b_vars>>
    \/ (\E g \in 1..Len(gens) : GenNext(g)) /\ UNCHANGED <<ov_vars, s_vars, l_vars, b_vars>>
    \/ Reset /\ UNCHANGED <<ov_vars, s_vars, l_vars, b_vars>>
    \/ DropGen /\ UNCHANGED <<ov_vars, s_vars, l_vars, b_vars>>

SpecIter == InitIter /\ [][NextIter]_vars

\* Where the code raises the ValueError of an unsupported output_type: in the
\* iterator's first batch, before anything is yielded (an iterator with no
\* batch at all ends quietly); with output_type 0, 1 or 2 it is never raised.
ErrorAtFirstBatch ==
    self # <<>> =>
        \A g \in 1..Len(gens) :
            /\ gens[g].pc = "raised" =>
                  /\ self.output_type \notin {0, 1, 2}
                  /\ self.nbatches > 0
                  /\ gens[g].k = 0
                  /\ gens[g].yields = <<>>
            /\ self.output_type \notin {0, 1, 2} =>
                  /\ gens[g].yields = <<>>
                  /\ gens[g].pc # "suspended"
                  /\ gens[g].pc = "done" => self.nbatches = 0

\* C7: a dataset constructed with an unsupported output_type whose iterator
\* has raised.
C7_Witness ==
    /\ self # <<>>
    /\ self.output_type = 3
    /\ \E g \in 1..Len(gens) : gens[g].pc = "raised"

\* C7: an output_type outside {0, 1, 2} makes construction fail, and a
\* constructed dataset never raises a configuration error while iterated.
C7_FailsAtConstruction ==
    /\ self # <<>> => self.output_type \in {0, 1, 2}
    /\ \A g \in 1..Len(gens) : gens[g].pc # "raised"

\* The cursor values seen at the yields of generator g are 0, 1, 2, ...
CursorsInOrder(g) ==
    \A j \in 1..Len(gens[g].yields) : gens[g].yields[j].batch_index = j - 1

\* What the iterator does for each output_type: with 0, 1 or 2 an invocation
\* yields exactly num_batches pairs, the cursor being 0, 1, ...,
\* num_batches - 1 at the yields in this order, and then ends; with another
\* output_type an invocation yields nothing.
EpochYieldsAllBatchesWhenSupported ==
    self # <<>> =>
        \A g \in 1..Len(gens) :
            /\ CursorsInOrder(g)
            /\ Len(gens[g].yields) <= self.nbatches
            /\ self.output_type \in {0, 1, 2} =>
                  /\ gens[g].pc \in {"created", "suspended", "done"}
                  /\ gens[g].k = Len(gens[g].yields)
                  /\ gens[g].pc = "done" => Len(gens[g].yields) = self.nbatches
                  /\ gens[g].pc = "suspended" =>
                        /\ Len(gens[g].yields) >= 1
                        /\ self.batch_index \in {0, Len(gens[g].yields) - 1}
            /\ self.output_type \notin {0, 1, 2} => gens[g].yields = <<>>

\* C8: an invocation that has ended before yielding any of the num_batches
\* pairs.
C8_Witness ==
    /\ self # <<>>
    /\ self.nbatches = 2
    /\ \E g \in 1..Len(gens) :
          /\ gens[g].pc = "raised"
          /\ gens[g].yields = <<>>

\* An invocation with a supported output_type that has ended after two
\* batches.
TwoBatchEpochDone ==
    /\ self # <<>>
    /\ \E g \in 1..Len(gens) :
          /\ gens[g].pc = "done"
          /\ Len(gens[g].yields) = 2
          /\ self.nbatches = 2
          /\ gens[g].yields[2].batch_index = 1

\* C8: each invocation of the iterator yields exactly num_batches pairs, the
\* cursor being 0, 1, ..., num_batches - 1 in this order, and then ends.
C8_EveryEpochYieldsAllBatches ==
    self # <<>> =>
        \A g \in 1..Len(gens) :
            /\ CursorsInOrder(g)
            /\ gens[g].pc \in {"done", "raised"} =>
                  Len(gens[g].yields) = self.nbatches

\* C15: in one epoch, for every supported configuration (also when n_mb
\* overrides the number of batches), batch k is built from the region sets at
\* the permuted positions k * img_per_batch .. (k + 1) * img_per_batch - 1, so
\* every yielded batch holds exactly img_per_batch region sets and no region
\* set is used in two batches of the epoch; without shuffling the permutation
\* is the identity.
C15_BatchesPartitionEpoch ==
    self # <<>> =>
        \A g \in 1..Len(gens) :
            /\ (gens[g].pc # "created" /\ ~self.shuffle) =>
                  gens[g].shuf_idx = [e \in 1..self.num_image_entries |-> e]
            /\ \A j \in 1..Len(gens[g].yields) :
                  /\ Len(gens[g].yields[j].db_inds) = self.img_per_batch
                  /\ \A m \in 1..self.img_per_batch :
                        /\ (j - 1) * self.img_per_batch + m <= Len(gens[g].shuf_idx)
                        /\ gens[g].yields[j].db_inds[m]
                              = gens[g].shuf_idx[(j - 1) * self.img_per_batch + m]
            /\ \A j1, j2 \in 1..Len(gens[g].yields) :
                  j1 # j2 => Range(gens[g].yields[j1].db_inds)
                                 \cap Range(gens[g].yields[j2].db_inds) = {}

\* A yielded batch that holds fewer than img_per_batch region sets.
C15_Witness ==
    /\ self # <<>>
    /\ self.output_type \in {0, 1, 2}
    /\ \E g \in 1..Len(gens) : \E j \in 1..Len(gens[g].yields) :
          Len(gens[g].yields[j].db_inds) < self.img_per_batch

\* The batches of an epoch when nbatches * img_per_batch does not exceed the
\* number of region sets: each holds img_per_batch sets at consecutive
\* permuted positions.
BatchesPartitionEpochWhenCovered ==
    (self # <<>> /\ self.nbatches * self.img_per_batch <= self.num_image_entries)
        => C15_BatchesPartitionEpoch

AllZero(row) == \A c \in 1..Len(row) : row[c] = 0

\* The rows of image slot i (0-based) of a yielded batch y built from db_inds
\* are the result res of the sampler followed by zeros.
SlotHolds(y, i, e, res) ==
    LET rpi == self.rois_per_image
        n   == Len(res.labels)
    IN  /\ n <= rpi
        /\ Len(res.rois) = n /\ Len(res.bbox_targets) = n /\ Len(res.bbox_loss_weights) = n
        /\ \A j \in 1..rpi :
              IF j <= n
              THEN /\ y.dev_X_rois[i * rpi + j] =
                          <<i, res.rois[j][1] * ImScale(e), res.rois[j][2] * ImScale(e),
                               res.rois[j][3] * ImScale(e), res.rois[j][4] * ImScale(e)>>
                   /\ y.dev_y_labels_flat[i * rpi + j] = res.labels[j]
                   /\ y.dev_y_bbtargets[i * rpi + j] = res.bbox_targets[j]
                   /\ y.dev_y_bbmask[i * rpi + j] = res.bbox_loss_weights[j]
              ELSE /\ AllZero(y.dev_X_rois[i * rpi + j])
                   /\ y.dev_y_labels_flat[i * rpi + j] = 0
                   /\ AllZero(y.dev_y_bbtargets[i * rpi + j])
                   /\ AllZero(y.dev_y_bbmask[i * rpi + j])

\* C16: in every batch the n_i regions sampled for image slot i occupy the
\* rows [i * rois_per_image, i * rois_per_image + n_i) of the region, label,
\* regression-target and mask buffers, each such region row carries i as its
\* first entry, n_i <= rois_per_image so the rows of different slots never
\* overlap, and every row not written is all zeros.
C16_SlotLayout ==
    self # <<>> =>
        \A g \in 1..Len(gens) :
            gens[g].yielded # <<>> =>
                LET y    == gens[g].yielded
                    inds == gens[g].yields[Len(gens[g].yields)].db_inds
                    rows == self.img_per_batch * self.rois_per_image
                IN  /\ Len(y.dev_X_rois) = rows /\ Len(y.dev_y_labels_flat) = rows
                    /\ Len(y.dev_y_bbtargets) = rows /\ Len(y.dev_y_bbmask) = rows
                    /\ \A i \in 0..(self.img_per_batch - 1) :
                          IF i < Len(inds)
                          THEN \E res \in sample_fg_bg_rois(
                                              self.roi_db[inds[i + 1]], self.fg_rois_per_image,
                                              self.rois_per_image, self.num_classes,
                                              self.rois_random_sample) :
                                  SlotHolds(y, i, inds[i + 1], res)
                          ELSE \A j \in 1..self.rois_per_image :
                                  /\ AllZero(y.dev_X_rois[i * self.rois_per_image + j])
                                  /\ y.dev_y_labels_flat[i * self.rois_per_image + j] = 0
                                  /\ AllZero(y.dev_y_bbtargets[i * self.rois_per_image + j])
                                  /\ AllZero(y.dev_y_bbmask[i * self.rois_per_image + j])

\* A batch of two images with four rows each: slot 0 holds a foreground
\* region and is one region short, slot 1 starts at row 4 with index 1.
C16_Witness ==
    /\ self # <<>>
    /\ self.img_per_batch = 2
    /\ self.rois_per_image = 4
    /\ \E g \in 1..Len(gens) :
          /\ gens[g].yielded # <<>>
          /\ Len(gens[g].yields[Len(gens[g].yields)].db_inds) = 2
          /\ gens[g].yielded.dev_y_labels_flat[1] = 1
          /\ ~AllZero(gens[g].yielded.dev_y_bbmask[1])
          /\ ~AllZero(gens[g].yielded.dev_X_rois[3])
          /\ AllZero(gens[g].yielded.dev_X_rois[4])
          /\ gens[g].yielded.dev_X_rois[5][1] = 1
          /\ AllZero(gens[g].yielded.dev_X_rois[6])

\* C17: iterator epochs, and the sampler calls they make, leave every field
\* of every region set of the region database as it was built: the clamp of
\* background labels, the box rescaling and the target expansion act on
\* copies.
C17_RegionDatabaseUnchanged ==
    self # <<>> =>
        /\ Len(self.roi_db) = self.num_image_entries
        /\ \A e \in 1..self.num_image_entries :
              /\ self.roi_db[e].max_overlap_class
                    = [k \in 1..Len(IterCandidates(e)) |-> IterCandidates(e)[k].class]
              /\ self.roi_db[e].max_overlap_area
                    = [k \in 1..Len(IterCandidates(e)) |-> IterCandidates(e)[k].score]
              /\ self.roi_db[e].bb = [k \in 1..Len(IterCandidates(e)) |-> CandBox(k)]
              /\ self.roi_db[e] = RegionSet(IterCandidates(e), FRCN_IOU_THRE)

\* A yielded batch whose first row is a background region of image 1: its
\* label is clamped to 0 and its box is scaled by 2, while the database
\* records class 1 and the unscaled box for it.
C17_Witness ==
    /\ self # <<>>
    /\ self.rois_per_image = 1
    /\ \E g \in 1..Len(gens) :
          /\ gens[g].yielded # <<>>
          /\ gens[g].yields[Len(gens[g].yields)].db_inds[1] = 1
          /\ gens[g].yielded.dev_y_labels_flat[1] = 0
          /\ gens[g].yielded.dev_X_rois[1] = <<0, 4, 0, 6, 2>>
          /\ self.roi_db[1].max_overlap_class[2] = 1
          /\ self.roi_db[1].bb[2] = <<2, 0, 3, 1>>

====
